---- MODULE Spec2Model ----
(***************************************************************************)
(* A model of src/python/PITOS/src/pitos/core.py: the PITOS uniformity    *)
(* test (pair generation, bidirectional PIT evaluation, Cauchy            *)
(* combination) and its helper functions, as a single-threaded machine    *)
(* whose caller invokes one function at a time.                           *)
(*                                                                         *)
(* Numbers.  A float is a pair <<num, den>> in lowest terms with          *)
(* den >= 0: den > 0 is the rational num/den, <<1,0>> is +inf, <<-1,0>>   *)
(* is -inf and <<0,0>> is NaN, so that division by zero and 0*inf give    *)
(* what IEEE arithmetic under numpy gives.  The Beta CDF with integer     *)
(* shape parameters is computed exactly.  The transcendental functions    *)
(* (tan, the Cauchy survival function, log, the Beta(0.7,0.7) quantile)   *)
(* are fixed-point: tables of their values, named below; the combiner's   *)
(* statistic is carried in thousandths.                                   *)
(***************************************************************************)
EXTENDS Integers, Sequences, FiniteSets, TLC

(***************************** bounds **************************************)
\* longest sample the caller passes
MaxLen == 2
\* longest explicit pair sequence / p-value array the caller passes
MaxPairs == 2
\* largest N of a generator call made on its own
MaxN == 6
\* largest index and base of a _halton_1d call made on its own
MaxIndex == 16
MaxBase == 3
\* number of pitos calls in a run of the repeated-call specification
MaxCalls == 3

(***************************** the caller's history ************************)
VARIABLES
    calls,           \* pitos calls completed (repeated-call specification)
    memo             \* an earlier pitos call and its outcome (same)

(***************************** floats **************************************)
Abs(a) == IF a < 0 THEN -a ELSE a

Sign(a) == IF a > 0 THEN 1 ELSE IF a < 0 THEN -1 ELSE 0

\* Euclid's algorithm
RECURSIVE Gcd(_, _)
Gcd(a, b) == IF b = 0 THEN a ELSE Gcd(b, a % b)

\* num/den as a float: lowest terms, positive denominator; x/0 is +-inf, 0/0 NaN
Norm(num, den) ==
    IF den = 0 THEN <<Sign(num), 0>>
    ELSE LET g == Gcd(Abs(num), Abs(den))
             s == Sign(den)
         IN  <<(s * num) \div g, (s * den) \div g>>

NaN == <<0, 0>>
Zero == <<0, 1>>
One == <<1, 1>>

IsNaN(a) == a = NaN
IsFinite(a) == a[2] > 0

\* a < b, false when either side is NaN
Less(a, b) ==
    IF IsNaN(a) \/ IsNaN(b) THEN FALSE
    ELSE IF a[2] = 0 /\ b[2] = 0 THEN a[1] < b[1]
    ELSE IF a[2] = 0 THEN a[1] < 0
    ELSE IF b[2] = 0 THEN b[1] > 0
    ELSE a[1] * b[2] < b[1] * a[2]

\* a == b, false when either side is NaN
Eq(a, b) == ~IsNaN(a) /\ ~IsNaN(b) /\ a = b

Leq(a, b) == Less(a, b) \/ Eq(a, b)

Sub(a, b) ==
    IF IsNaN(a) \/ IsNaN(b) THEN NaN
    ELSE IF a[2] = 0 /\ b[2] = 0 THEN (IF a[1] = b[1] THEN NaN ELSE a)
    ELSE IF a[2] = 0 THEN a
    ELSE IF b[2] = 0 THEN <<-b[1], 0>>
    ELSE Norm(a[1] * b[2] - b[1] * a[2], a[2] * b[2])

Mul(a, b) ==
    IF IsNaN(a) \/ IsNaN(b) THEN NaN ELSE Norm(a[1] * b[1], a[2] * b[2])

\* numpy true division: x/0 is +-inf and 0/0 is NaN, never an exception
Div(a, b) ==
    IF IsNaN(a) \/ IsNaN(b) THEN NaN
    ELSE IF a[2] = 0 /\ b[2] = 0 THEN NaN
    ELSE IF a[2] = 0 THEN <<IF b[1] < 0 THEN -a[1] ELSE a[1], 0>>
    ELSE Norm(a[1] * b[2], a[2] * b[1])

\* Python's min(a, b): b when b < a, else a
PyMin(a, b) == IF Less(b, a) THEN b ELSE a

RECURSIVE Pow(_, _)
Pow(b, e) == IF e = 0 THEN 1 ELSE b * Pow(b, e - 1)

RECURSIVE Choose(_, _)
Choose(m, j) == IF j = 0 THEN 1 ELSE (Choose(m, j - 1) * (m - j + 1)) \div j

(***************************** scipy.stats.beta.cdf ************************)
\* sum over i = j..m of C(m,i) * p^i * (q-p)^(m-i)
RECURSIVE BinomTail(_, _, _, _)
BinomTail(p, q, m, j) ==
    IF j > m THEN 0
    ELSE Choose(m, j) * Pow(p, j) * Pow(q - p, m - j) + BinomTail(p, q, m, j + 1)

\* beta.cdf(x, a, b) for integer shapes: the regularized incomplete beta
\* function I_x(a, b) = P(Binomial(a+b-1, x) >= a); 0 left of the support,
\* 1 right of it, NaN for NaN or for a shape parameter that is not positive
BetaCdf(x, a, b) ==
    IF IsNaN(x) \/ a <= 0 \/ b <= 0 THEN NaN
    ELSE IF Leq(x, Zero) THEN Zero
    ELSE IF Leq(One, x) THEN One
    ELSE Norm(BinomTail(x[1], x[2], a + b - 1, a), Pow(x[2], a + b - 1))

(***************************** outcomes ************************************)
\* what a call gives its caller: a value, or an exception and the line raising it
Returned(v) == [kind |-> "value", val |-> v, line |-> 0]
Raised(exc, line) == [kind |-> exc, val |-> NaN, line |-> line]
NoOutcome == [kind |-> "none", val |-> NaN, line |-> 0]

(***************************** _validate_pairs *****************************)
\* np.any(pairs_arr < 1) or np.any(pairs_arr > n)
ValidatePairsNoUpper(pairs, n) ==
    IF \E i \in 1..Len(pairs) : pairs[i][1] < 1 \/ pairs[i][2] < 1
    THEN Raised("ValueError", 107)
    ELSE Returned(NaN)

ValidatePairs(pairs, n) ==
    IF (\E i \in 1..Len(pairs) : pairs[i][1] < 1 \/ pairs[i][2] < 1)
       \/ (\E i \in 1..Len(pairs) : pairs[i][1] > n \/ pairs[i][2] > n)
    THEN Raised("ValueError", 107)
    ELSE Returned(NaN)

(***************************** np.sort *************************************)
RECURSIVE Insert(_, _)
Insert(sorted, v) ==
    IF sorted = <<>> THEN <<v>>
    ELSE IF Less(v, Head(sorted)) THEN <<v>> \o sorted
    ELSE <<Head(sorted)>> \o Insert(Tail(sorted), v)

\* np.sort(x): a new array, ascending
RECURSIVE Sort(_)
Sort(x) == IF x = <<>> THEN <<>> ELSE Insert(Sort(Tail(x)), Head(x))

(***************************** _indexed_pitcos_bidirectional ***************)
\* xo[idx] of a numpy array: a negative idx counts from the end, and an idx
\* outside -len..len-1 raises IndexError
InBounds(xo, idx) == -Len(xo) <= idx /\ idx < Len(xo)
XoAt(xo, idx) == IF idx >= 0 THEN xo[idx + 1] ELSE xo[Len(xo) + idx + 1]

\* the record of one evaluation: its outcome, the offsets of xo it read, the
\* branch it took, the (a, b) of each beta.cdf call, and u
Evaluation(out, reads, branch, cdf, u) ==
    [out |-> out, reads |-> reads, branch |-> branch, cdf |-> cdf, u |-> u]

\* return 2.0 * min(u, 1.0 - u)
Fold(u) == Mul(<<2, 1>>, PyMin(u, Sub(One, u)))

\* xo[start_idx] == xo[finish_idx]: exact float equality
TiedNever(a, b) == FALSE

Tied(a, b) == Eq(a, b)

\* the body of the function once start, finish and the two offsets are set
EvaluateAt(xo, n, start, finish, start_idx, finish_idx) ==
    IF start = finish THEN
        IF ~InBounds(xo, finish_idx)
        THEN Evaluation(Raised("IndexError", 81), {finish_idx}, "diagonal", <<>>, Zero)
        ELSE LET u == BetaCdf(XoAt(xo, finish_idx), finish, n - finish + 1)
             IN  Evaluation(Returned(Fold(u)), {finish_idx}, "diagonal",
                            <<<<finish, n - finish + 1>>>>, u)
    ELSE IF start < finish THEN
        IF ~InBounds(xo, start_idx)
        THEN Evaluation(Raised("IndexError", 83), {start_idx}, "forward", <<>>, Zero)
        ELSE IF ~InBounds(xo, finish_idx)
        THEN Evaluation(Raised("IndexError", 83), {start_idx, finish_idx}, "forward", <<>>, Zero)
        ELSE IF Tied(XoAt(xo, start_idx), XoAt(xo, finish_idx))
        THEN Evaluation(Returned(Fold(Zero)), {start_idx, finish_idx}, "forward", <<>>, Zero)
        ELSE LET val == Div(Sub(XoAt(xo, finish_idx), XoAt(xo, start_idx)),
                            Sub(One, XoAt(xo, start_idx)))
                 u == BetaCdf(val, finish - start, n - finish + 1)
             IN  Evaluation(Returned(Fold(u)), {start_idx, finish_idx}, "forward",
                            <<<<finish - start, n - finish + 1>>>>, u)
    ELSE  \* start > finish
        IF ~InBounds(xo, start_idx)
        THEN Evaluation(Raised("IndexError", 89), {start_idx}, "backward", <<>>, Zero)
        ELSE IF ~InBounds(xo, finish_idx)
        THEN Evaluation(Raised("IndexError", 89), {start_idx, finish_idx}, "backward", <<>>, Zero)
        ELSE IF Tied(XoAt(xo, start_idx), XoAt(xo, finish_idx))
        THEN Evaluation(Returned(Fold(Zero)), {start_idx, finish_idx}, "backward", <<>>, Zero)
        ELSE LET val == Div(XoAt(xo, finish_idx), XoAt(xo, start_idx))
                 u == BetaCdf(val, finish, start - finish)
             IN  Evaluation(Returned(Fold(u)), {start_idx, finish_idx}, "backward",
                            <<<<finish, start - finish>>>>, u)

EvaluateNoOffsetAdjust(xo, n, pair) ==
    EvaluateAt(xo, n, pair[1], pair[2], pair[1], pair[2])

\* start, finish = pair; start_idx, finish_idx = start - 1, finish - 1
Evaluate(xo, n, pair) ==
    EvaluateAt(xo, n, pair[1], pair[2], pair[1] - 1, pair[2] - 1)

(***************************** _cauchy_combination *************************)
\* tan(pi/2 - pi*p) at the knots p = P/1024, in thousandths; np.tan's value
\* at p = 0 (about 1.6e16) is held at the largest value of the table
TanKnots ==
    << <<0, 1000000>>, <<1, 325948>>, <<4, 81483>>, <<16, 20355>>,
       <<64, 5027>>, <<128, 2414>>, <<192, 1497>>, <<256, 1000>>,
       <<320, 668>>, <<384, 414>>, <<448, 199>>, <<512, 0>> >>

KnotP(k) == TanKnots[k][1]
KnotT(k) == TanKnots[k][2]

\* thousandths of tan(pi*(0.5 - p)) for 0 <= p <= 1/2, p = pn/pd: linear
\* between the two knots around p
TanLower(pn, pd) ==
    LET k == CHOOSE j \in 1..(Len(TanKnots) - 1) :
                 /\ KnotP(j) * pd <= 1024 * pn
                 /\ 1024 * pn <= KnotP(j + 1) * pd
                 /\ \A i \in 1..(j - 1) : 1024 * pn > KnotP(i + 1) * pd
    IN  KnotT(k) - ((KnotT(k) - KnotT(k + 1)) * (1024 * pn - KnotP(k) * pd))
                       \div (pd * (KnotP(k + 1) - KnotP(k)))

\* np.tan(np.pi * (0.5 - p)) in thousandths: odd about p = 1/2, of period 1
\* outside [0, 1], NaN for NaN and for an infinite p
TanPiHalfMinus(p) ==
    IF ~IsFinite(p) THEN NaN
    ELSE LET r == IF Leq(Zero, p) /\ Leq(p, One) THEN p
                  ELSE Norm(p[1] % p[2], p[2])
         IN  IF Leq(r, <<1, 2>>) THEN <<TanLower(r[1], r[2]), 1>>
             ELSE LET q == Sub(One, r) IN <<-TanLower(q[1], q[2]), 1>>

\* 1024ths of cauchy.sf(s) for s = sn/sd thousandths, 0 <= s: the inverse of
\* the table, linear between the two knots around s
SfUpper(sn, sd) ==
    IF sn >= KnotT(1) * sd THEN 0
    ELSE LET k == CHOOSE j \in 1..(Len(TanKnots) - 1) :
                      /\ KnotT(j) * sd >= sn
                      /\ sn >= KnotT(j + 1) * sd
                      /\ \A i \in 1..(j - 1) : sn < KnotT(i + 1) * sd
         IN  KnotP(k) + ((KnotP(k + 1) - KnotP(k)) * (KnotT(k) * sd - sn))
                            \div ((KnotT(k) - KnotT(k + 1)) * sd)

\* cauchy.sf(s) = 1/2 - atan(s)/pi for s in thousandths: in [0, 1] for
\* every s but NaN
CauchySf(s) ==
    IF IsNaN(s) THEN NaN
    ELSE IF s[2] = 0 THEN (IF s[1] > 0 THEN Zero ELSE One)
    ELSE IF s[1] >= 0 THEN Norm(SfUpper(s[1], s[2]), 1024)
    ELSE Norm(1024 - SfUpper(-s[1], s[2]), 1024)

Add(a, b) ==
    IF IsNaN(a) \/ IsNaN(b) THEN NaN
    ELSE IF a[2] = 0 /\ b[2] = 0 THEN (IF a[1] = b[1] THEN a ELSE NaN)
    ELSE IF a[2] = 0 THEN a
    ELSE IF b[2] = 0 THEN b
    ELSE Norm(a[1] * b[2] + b[1] * a[2], a[2] * b[2])

\* the sum of an array, left to right
SumSeq(vals) ==
    LET Partial[k \in 0..Len(vals)] ==
            IF k = 0 THEN Zero ELSE Add(Partial[k - 1], vals[k])
    IN  Partial[Len(vals)]

\* np.mean: the sum over the count, NaN (0/0) for an empty array
Mean(vals) == Div(SumSeq(vals), <<Len(vals), 1>>)

\* np.any((pvalues < 0) | (pvalues > 1))
OutOfRangeOnlyAbove(pvalues) == \E i \in 1..Len(pvalues) : Less(One, pvalues[i])

OutOfRange(pvalues) ==
    \E i \in 1..Len(pvalues) : Less(pvalues[i], Zero) \/ Less(One, pvalues[i])

CauchyCombination(pvalues) ==
    IF OutOfRange(pvalues) THEN Raised("ValueError", 99)
    ELSE LET statistic == Mean([i \in 1..Len(pvalues) |-> TanPiHalfMinus(pvalues[i])])
         IN  Returned(CauchySf(statistic))

(***************************** _halton_1d **********************************)
\* the locals of a running _halton_1d call
HaltonStart(i, b) == [i |-> i, b |-> b, f |-> One, result |-> Zero]

HaltonBodyDigitUnscaled(st) ==
    [st EXCEPT !.f = Div(st.f, <<st.b, 1>>),
               !.result = Add(st.result, <<st.i % st.b, 1>>),
               !.i = st.i \div st.b]

\* one pass of the while loop: f /= b; result += f * (i % b); i //= b
HaltonBody(st) ==
    LET f == Div(st.f, <<st.b, 1>>)
    IN  [st EXCEPT !.f = f,
                   !.result = Add(st.result, Mul(f, <<st.i % st.b, 1>>)),
                   !.i = st.i \div st.b]

\* while i > 0: ... ; the locals when the loop is left
RECURSIVE HaltonLoop(_)
HaltonLoop(st) == IF st.i > 0 THEN HaltonLoop(HaltonBody(st)) ELSE st

\* return result
Halton1d(i, b) == HaltonLoop(HaltonStart(i, b)).result

(***************************** scipy.stats.beta.ppf(., 0.7, 0.7) ***********)
\* millionths of the Beta(0.7, 0.7) quantile at the fraction num/den, tabulated
\* at the points of the base-2 and base-3 Halton sequences, indices 1..60.
\* The quantile at 1/2 is exactly 1/2 by symmetry, so for even n the product
\* with n lies on an integer, where the last bit of the library's result
\* decides between n/2 and n/2 + 1; both are indices in [1, n].
Ppf07Micro(num, den) ==
    CASE den = 2 ->
          (CASE num = 1 -> 500000)
      [] den = 3 ->
          (CASE num = 1 -> 294886 [] num = 2 -> 705114)
      [] den = 4 ->
          (CASE num = 1 -> 199549 [] num = 3 -> 800451)
      [] den = 8 ->
          (CASE num = 1 -> 75946 [] num = 3 -> 344938 [] num = 5 -> 655062
             [] num = 7 -> 924054)
      [] den = 9 ->
          (CASE num = 1 -> 64323 [] num = 2 -> 169671 [] num = 4 -> 430530
             [] num = 5 -> 569470 [] num = 7 -> 830329 [] num = 8 -> 935677)
      [] den = 16 ->
          (CASE num = 1 -> 28460 [] num = 3 -> 134047 [] num = 5 -> 270376
             [] num = 7 -> 421886 [] num = 9 -> 578114 [] num = 11 -> 729624
             [] num = 13 -> 865953 [] num = 15 -> 971540)
      [] den = 27 ->
          (CASE num = 1 -> 13514 [] num = 2 -> 36228 [] num = 4 -> 96437
             [] num = 5 -> 131748 [] num = 7 -> 209748 [] num = 8 -> 251596
             [] num = 10 -> 339318 [] num = 11 -> 384619 [] num = 13 -> 476803
             [] num = 14 -> 523197 [] num = 16 -> 615381 [] num = 17 -> 660682
             [] num = 19 -> 748404 [] num = 20 -> 790252 [] num = 22 -> 868252
             [] num = 23 -> 903563 [] num = 25 -> 963772 [] num = 26 -> 986486)
      [] den = 32 ->
          (CASE num = 1 -> 10607 [] num = 3 -> 50589 [] num = 5 -> 103911
             [] num = 7 -> 166018 [] num = 9 -> 234404 [] num = 11 -> 307279
             [] num = 13 -> 383192 [] num = 15 -> 460871 [] num = 17 -> 539129
             [] num = 19 -> 616808 [] num = 21 -> 692721 [] num = 23 -> 765596
             [] num = 25 -> 833982 [] num = 27 -> 896089 [] num = 29 -> 949411
             [] num = 31 -> 989393)
      [] den = 64 ->
          (CASE num = 1 -> 3945 [] num = 3 -> 18902 [] num = 5 -> 39071
             [] num = 7 -> 62909 [] num = 9 -> 89633 [] num = 11 -> 118731
             [] num = 13 -> 149822 [] num = 15 -> 182604 [] num = 17 -> 216824
             [] num = 19 -> 252263 [] num = 21 -> 288722 [] num = 23 -> 326024
             [] num = 25 -> 364001 [] num = 27 -> 402494 [] num = 29 -> 441352
             [] num = 33 -> 519574 [] num = 35 -> 558648 [] num = 37 -> 597506
             [] num = 39 -> 635999 [] num = 41 -> 673976 [] num = 43 -> 711278
             [] num = 45 -> 747737 [] num = 49 -> 817396 [] num = 51 -> 850178
             [] num = 53 -> 881269 [] num = 55 -> 910367 [] num = 57 -> 937091
             [] num = 59 -> 960929 [] num = 61 -> 981098)
      [] den = 81 ->
          (CASE num = 1 -> 2818 [] num = 2 -> 7580 [] num = 4 -> 20357
             [] num = 7 -> 45080 [] num = 10 -> 74629 [] num = 11 -> 85343
             [] num = 13 -> 107885 [] num = 16 -> 144124 [] num = 19 -> 182811
             [] num = 20 -> 196175 [] num = 22 -> 223518 [] num = 25 -> 265881
             [] num = 28 -> 309583 [] num = 29 -> 324397 [] num = 31 -> 354334
             [] num = 34 -> 399867 [] num = 37 -> 445926 [] num = 38 -> 461353
             [] num = 40 -> 492266 [] num = 43 -> 538647 [] num = 46 -> 584826
             [] num = 49 -> 630562 [] num = 52 -> 675603 [] num = 55 -> 719685
             [] num = 56 -> 734119 [] num = 58 -> 762529 [] num = 61 -> 803825
             [] num = 64 -> 843230 [] num = 65 -> 855876 [] num = 67 -> 880338
             [] num = 70 -> 914657 [] num = 73 -> 945539 [] num = 76 -> 972038
             [] num = 79 -> 992420)

\* beta.ppf(q, 0.7, 0.7): 0 at 0, 1 at 1, strictly between otherwise
BetaPpf07(q) ==
    IF Eq(q, Zero) THEN Zero
    ELSE IF Eq(q, One) THEN One
    ELSE Norm(Ppf07Micro(q[1], q[2]), 1000000)

(***************************** generate_weighted_halton_sequence ***********)
\* np.ceil
CeilAsFloor(r) == r[1] \div r[2]

Ceil(r) == -((-r[1]) \div r[2])

\* _generate_raw_halton_sequence: the two columns of the raw sequence
RawHaltonContinuing(N, n) ==
    IF n <= 0 THEN [out |-> Raised("ValueError", 51), x_raw |-> <<>>, y_raw |-> <<>>]
    ELSE IF ~IsFinite(N) THEN [out |-> Raised("ValueError", 53), x_raw |-> <<>>, y_raw |-> <<>>]
    ELSE [out |-> Returned(NaN),
          x_raw |-> [i \in 1..N[1] |-> Halton1d(calls * N[1] + i, 2)],
          y_raw |-> [i \in 1..N[1] |-> Halton1d(calls * N[1] + i, 3)]]

RawHalton(N, n) ==
    IF n <= 0 THEN [out |-> Raised("ValueError", 51), x_raw |-> <<>>, y_raw |-> <<>>]
    ELSE IF ~IsFinite(N) THEN [out |-> Raised("ValueError", 53), x_raw |-> <<>>, y_raw |-> <<>>]
    ELSE [out |-> Returned(NaN),
          x_raw |-> [i \in 1..N[1] |-> Halton1d(i, 2)],
          y_raw |-> [i \in 1..N[1] |-> Halton1d(i, 3)]]

\* weighted[weighted == 0] = 1 / n
ZeroFix(weighted, n) ==
    [j \in 1..Len(weighted) |->
        IF Eq(weighted[j], Zero) THEN Div(One, <<n, 1>>) ELSE weighted[j]]

\* np.arange(1, n + 1) in both columns
Marginals(n) == [k \in 1..n |-> <<k, k>>]

\* np.vstack((weighted_pairs, marginals))
VStackSwapped(top, bottom) == bottom \o top

VStack(top, bottom) == top \o bottom

Generate(N, n) ==
    LET raw_halton == RawHalton(N, n)
    IN  IF raw_halton.out.kind # "value" THEN [out |-> raw_halton.out, pairs |-> <<>>]
        ELSE LET weighted_x == ZeroFix([j \in 1..Len(raw_halton.x_raw) |->
                                           BetaPpf07(raw_halton.x_raw[j])], n)
                 weighted_y == ZeroFix([j \in 1..Len(raw_halton.y_raw) |->
                                           BetaPpf07(raw_halton.y_raw[j])], n)
                 weighted_pairs == [j \in 1..Len(weighted_x) |->
                                       <<Ceil(Mul(weighted_x[j], <<n, 1>>)),
                                         Ceil(Mul(weighted_y[j], <<n, 1>>))>>]
             IN  [out |-> Returned(NaN), pairs |-> VStack(weighted_pairs, Marginals(n))]

(***************************** round(10 * n * np.log(n)) *******************)
\* millionths of the natural logarithm of 1, 2, 3, 4, 5
LogTable == <<0, 693147, 1098612, 1386294, 1609438>>

\* np.log(n): -inf at 0
Log(n) == IF n = 0 THEN <<-1, 0>> ELSE Norm(LogTable[n], 1000000)

\* Python's round(r) of a numpy float: the nearest integer, ties to even.
\* For NaN the int conversion raises ValueError where round() of a numpy
\* float gives an int (intRound), and NaN comes back where it gives a float
PyRound(r, intRound) ==
    IF IsNaN(r) THEN (IF intRound THEN Raised("ValueError", 25) ELSE Returned(NaN))
    ELSE IF ~IsFinite(r) THEN Raised("OverflowError", 25)
    ELSE LET q == (2 * r[1] + r[2]) \div (2 * r[2])
             tie == (2 * r[1] + r[2]) % (2 * r[2]) = 0
         IN  Returned(<<IF tie /\ q % 2 = 1 THEN q - 1 ELSE q, 1>>)

\* N = round(10 * n * np.log(n))
PairCount(n, intRound) == PyRound(Mul(<<10 * n, 1>>, Log(n)), intRound)

(***************************** state ***************************************)
VARIABLES
    pc,              \* where the running call stands; "idle" between calls
    fn,              \* the function the caller invoked
    x,               \* pitos: the sample
    explicit,        \* pitos: pairs_sequence was passed (is not None)
    pairs_arg,       \* pitos: the pairs_sequence passed
    n,               \* n
    N,               \* N
    pairs_sequence,  \* the pair sequence in use, or returned by the generator
    xo,              \* the sorted sample
    p_values,        \* the per-pair p-values
    ev,              \* the latest _indexed_pitcos_bidirectional evaluation
    evalCalls,       \* _indexed_pitcos_bidirectional calls of the running call
    combineCalls,    \* _cauchy_combination calls of the running call
    out,             \* what the call gave its caller
    h,               \* the locals of a running _halton_1d call
    hargs            \* the (i, b) a _halton_1d call was given

vars == <<pc, fn, x, explicit, pairs_arg, n, N, pairs_sequence, xo, p_values,
          ev, evalCalls, combineCalls, out, h, hargs, calls, memo>>

NoEvaluation == Evaluation(NoOutcome, {}, "none", <<>>, Zero)
NoMemo ==
    [set |-> FALSE, x |-> <<>>, explicit |-> FALSE, pairs |-> <<>>,
     out |-> NoOutcome, others |-> 0]

\* nothing of a call outlives it: the state between calls
Fresh ==
    /\ pc = "idle"
    /\ fn = "none"
    /\ x = <<>>
    /\ explicit = FALSE
    /\ pairs_arg = <<>>
    /\ n = 0
    /\ N = Zero
    /\ pairs_sequence = <<>>
    /\ xo = <<>>
    /\ p_values = <<>>
    /\ ev = NoEvaluation
    /\ evalCalls = 0
    /\ combineCalls = 0
    /\ out = NoOutcome
    /\ h = HaltonStart(0, 2)
    /\ hargs = <<0, 2>>

Init == Fresh /\ calls = 0 /\ memo = NoMemo

(***************************** what the caller passes **********************)
\* sample values: 1/2, 1 and 3/2
Vals == {<<1, 2>>, <<1, 1>>, <<3, 2>>}
Samples == UNION {[1..k -> Vals] : k \in 0..MaxLen}
SortedSamples == {s \in Samples : Sort(s) = s}

\* pairs around a sample of length m: every component from 0 to m + 1
PairsAround(m) == (0..(m + 1)) \X (0..(m + 1))
PairSeqs(m) == UNION {[1..k -> PairsAround(m)] : k \in 0..MaxPairs}

\* p-values around [0, 1]: -1/2, 0, 1/4, 1/2, 1, 3/2 and NaN
PVals == {<<-1, 2>>, <<0, 1>>, <<1, 4>>, <<1, 2>>, <<1, 1>>, <<3, 2>>, NaN}
PValSeqs == UNION {[1..k -> PVals] : k \in 0..MaxPairs}

(***************************** pitos ***************************************)
\* the call, and n = len(x)
PitosEnter(sample, given, pairs) ==
    /\ pc = "idle"
    /\ fn' = "pitos"
    /\ x' = sample
    /\ explicit' = given
    /\ pairs_arg' = pairs
    /\ pairs_sequence' = pairs
    /\ n' = Len(sample)
    /\ pc' = IF given THEN "validate" ELSE "generate"
    /\ UNCHANGED <<N, xo, p_values, ev, evalCalls, combineCalls, out, h, hargs,
                   calls, memo>>

PitosCall ==
    /\ pc = "idle"
    /\ \E sample \in Samples :
        \/ PitosEnter(sample, FALSE, <<>>)
        \/ \E pairs \in PairSeqs(Len(sample)) : PitosEnter(sample, TRUE, pairs)

\* pairs_sequence = generate_weighted_halton_sequence(N, n), N being count
PitosGenerated(count, gen) ==
    IF count.kind # "value"
    THEN /\ out' = count
         /\ pc' = "done"
         /\ UNCHANGED <<N, pairs_sequence>>
    ELSE /\ N' = count.val
         /\ IF gen.out.kind # "value"
            THEN /\ out' = gen.out
                 /\ pc' = "done"
                 /\ UNCHANGED pairs_sequence
            ELSE /\ pairs_sequence' = gen.pairs
                 /\ pc' = "validate"
                 /\ UNCHANGED out

\* if pairs_sequence is None: N = round(10 * n * np.log(n)); pairs_sequence =
\* generate...(N, n).  The two kinds of round() differ on NaN alone, which
\* 10 * n * np.log(n) is for n = 0 alone
PitosGenerate ==
    /\ pc = "generate"
    /\ \E intRound \in IF n = 0 THEN BOOLEAN ELSE {TRUE} :
        \E count \in {PairCount(n, intRound)} :
            \E gen \in {Generate(count.val, n)} : PitosGenerated(count, gen)
    /\ UNCHANGED <<fn, x, explicit, pairs_arg, n, xo, p_values, ev, evalCalls,
                   combineCalls, h, hargs, calls, memo>>

\* _validate_pairs(pairs_sequence, n)
PitosValidate ==
    /\ pc = "validate"
    /\ LET v == ValidatePairs(pairs_sequence, n)
       IN  IF v.kind # "value"
           THEN out' = v /\ pc' = "done"
           ELSE pc' = "sort" /\ UNCHANGED out
    /\ UNCHANGED <<fn, x, explicit, pairs_arg, n, N, pairs_sequence, xo, p_values,
                   ev, evalCalls, combineCalls, h, hargs, calls, memo>>

\* xo = np.sort(x)
PitosSort ==
    /\ pc = "sort"
    /\ xo' = Sort(x)
    /\ pc' = "evaluate"
    /\ UNCHANGED <<fn, x, explicit, pairs_arg, n, N, pairs_sequence, p_values,
                   ev, evalCalls, combineCalls, out, h, hargs, calls, memo>>

\* one element of [_indexed_pitcos_bidirectional(xo, n, pair) for pair in ...]
PitosEvaluate ==
    /\ pc = "evaluate"
    /\ Len(p_values) < Len(pairs_sequence)
    /\ \E e \in {Evaluate(xo, n, pairs_sequence[Len(p_values) + 1])} :
           /\ ev' = e
           /\ evalCalls' = evalCalls + 1
           /\ IF e.out.kind # "value"
              THEN out' = e.out /\ pc' = "done" /\ UNCHANGED p_values
              ELSE p_values' = Append(p_values, e.out.val) /\ UNCHANGED <<out, pc>>
    /\ UNCHANGED <<fn, x, explicit, pairs_arg, n, N, pairs_sequence, xo,
                   combineCalls, h, hargs, calls, memo>>

\* return _cauchy_combination(p_values)
PitosCombine ==
    /\ pc = "evaluate"
    /\ Len(p_values) = Len(pairs_sequence)
    /\ out' = CauchyCombination(p_values)
    /\ combineCalls' = combineCalls + 1
    /\ pc' = "done"
    /\ UNCHANGED <<fn, x, explicit, pairs_arg, n, N, pairs_sequence, xo, p_values,
                   ev, evalCalls, h, hargs, calls, memo>>

(***************************** the helpers, called on their own ************)
ValidateCall ==
    /\ pc = "idle"
    /\ \E m \in 0..MaxLen : \E pairs \in PairSeqs(m) :
        /\ fn' = "_validate_pairs"
        /\ n' = m
        /\ pairs_sequence' = pairs
        /\ out' = ValidatePairs(pairs, m)
    /\ pc' = "done"
    /\ UNCHANGED <<x, explicit, pairs_arg, N, xo, p_values, ev, evalCalls,
                   combineCalls, h, hargs, calls, memo>>

EvaluateCall ==
    /\ pc = "idle"
    /\ \E sorted \in SortedSamples : \E pair \in PairsAround(Len(sorted)) :
        /\ fn' = "_indexed_pitcos_bidirectional"
        /\ xo' = sorted
        /\ n' = Len(sorted)
        /\ pairs_sequence' = <<pair>>
        /\ ev' = Evaluate(sorted, Len(sorted), pair)
        /\ out' = ev'.out
    /\ evalCalls' = 1
    /\ pc' = "done"
    /\ UNCHANGED <<x, explicit, pairs_arg, N, p_values, combineCalls, h, hargs,
                   calls, memo>>

CombineCall ==
    /\ pc = "idle"
    /\ \E pvalues \in PValSeqs :
        /\ fn' = "_cauchy_combination"
        /\ p_values' = pvalues
        /\ out' = CauchyCombination(pvalues)
    /\ combineCalls' = 1
    /\ pc' = "done"
    /\ UNCHANGED <<x, explicit, pairs_arg, n, N, pairs_sequence, xo, ev,
                   evalCalls, h, hargs, calls, memo>>

GenerateCall ==
    /\ pc = "idle"
    /\ \E count \in 0..MaxN : \E m \in (-1)..MaxLen :
        LET gen == Generate(<<count, 1>>, m)
        IN  /\ fn' = "generate_weighted_halton_sequence"
            /\ N' = <<count, 1>>
            /\ n' = m
            /\ pairs_sequence' = gen.pairs
            /\ out' = gen.out
    /\ pc' = "done"
    /\ UNCHANGED <<x, explicit, pairs_arg, xo, p_values, ev, evalCalls,
                   combineCalls, h, hargs, calls, memo>>

\* the call is over and its locals are gone
Discard ==
    /\ pc' = "idle"
    /\ fn' = "none"
    /\ x' = <<>>
    /\ explicit' = FALSE
    /\ pairs_arg' = <<>>
    /\ n' = 0
    /\ N' = Zero
    /\ pairs_sequence' = <<>>
    /\ xo' = <<>>
    /\ p_values' = <<>>
    /\ ev' = NoEvaluation
    /\ evalCalls' = 0
    /\ combineCalls' = 0
    /\ out' = NoOutcome
    /\ h' = HaltonStart(0, 2)
    /\ hargs' = <<0, 2>>

Return ==
    /\ pc = "done"
    /\ Discard
    /\ UNCHANGED <<calls, memo>>

Next ==
    \/ PitosCall
    \/ PitosGenerate
    \/ PitosValidate
    \/ PitosSort
    \/ PitosEvaluate
    \/ PitosCombine
    \/ ValidateCall
    \/ EvaluateCall
    \/ CombineCall
    \/ GenerateCall
    \/ Return

Spec == Init /\ [][Next]_vars

(***************************** _halton_1d, called on its own ***************)
HaltonCall ==
    /\ pc = "idle"
    /\ \E i \in 0..MaxIndex : \E b \in 1..MaxBase :
        /\ hargs' = <<i, b>>
        /\ h' = HaltonStart(i, b)
    /\ fn' = "_halton_1d"
    /\ pc' = "halton"
    /\ UNCHANGED <<x, explicit, pairs_arg, n, N, pairs_sequence, xo, p_values,
                   ev, evalCalls, combineCalls, out, calls, memo>>

\* while i > 0: one pass
HaltonIter ==
    /\ pc = "halton"
    /\ h.i > 0
    /\ h' = HaltonBody(h)
    /\ UNCHANGED <<pc, fn, x, explicit, pairs_arg, n, N, pairs_sequence, xo,
                   p_values, ev, evalCalls, combineCalls, out, hargs, calls, memo>>

\* return result
HaltonReturn ==
    /\ pc = "halton"
    /\ ~(h.i > 0)
    /\ out' = Returned(h.result)
    /\ pc' = "done"
    /\ UNCHANGED <<fn, x, explicit, pairs_arg, n, N, pairs_sequence, xo,
                   p_values, ev, evalCalls, combineCalls, h, hargs, calls, memo>>

\* the caller takes the result; the locals are gone
HaltonDone ==
    /\ pc = "done"
    /\ Discard
    /\ UNCHANGED <<calls, memo>>

HaltonNext == HaltonCall \/ HaltonIter \/ HaltonReturn \/ HaltonDone

\* the interpreter runs a started loop on: a pass that can be taken is taken
HaltonSpec ==
    Init /\ [][HaltonNext]_vars /\ WF_vars(HaltonIter) /\ WF_vars(HaltonReturn)

(***************************** pitos, called again and again ***************)
\* samples of 1/2 and 1, and no pairs, no pair or one pair in range
RepeatSamples == UNION {[1..k -> {<<1, 2>>, <<1, 1>>}] : k \in 0..MaxLen}
RepeatPairSeqs(m) == {<<>>} \cup {<<pair>> : pair \in (1..m) \X (1..m)}

RepeatCall ==
    /\ pc = "idle"
    /\ calls < MaxCalls
    /\ \E sample \in RepeatSamples :
        \/ PitosEnter(sample, FALSE, <<>>)
        \/ \E pairs \in RepeatPairSeqs(Len(sample)) : PitosEnter(sample, TRUE, pairs)

\* the arguments of the running call are those of the call the caller kept
SameCall ==
    memo.set /\ memo.x = x /\ memo.explicit = explicit /\ memo.pairs = pairs_arg

\* the call is over; the caller may keep its arguments and its outcome, and
\* counts the calls with other arguments made since
RepeatReturn ==
    /\ pc = "done"
    /\ Discard
    /\ calls' = calls + 1
    /\ \/ /\ memo.set
          /\ memo' = [memo EXCEPT !.others = IF SameCall THEN @ ELSE @ + 1]
       \/ /\ ~memo.set
          /\ UNCHANGED memo
       \/ /\ ~memo.set
          /\ memo' = [set |-> TRUE, x |-> x, explicit |-> explicit,
                      pairs |-> pairs_arg, out |-> out, others |-> 0]

RepeatNext ==
    \/ RepeatCall
    \/ PitosGenerate
    \/ PitosValidate
    \/ PitosSort
    \/ PitosEvaluate
    \/ PitosCombine
    \/ RepeatReturn

RepeatSpec == Init /\ [][RepeatNext]_vars

(***************************** properties **********************************)
\* the pair the latest evaluation was given
EvPair == pairs_sequence[evalCalls]

\* some component of some pair is < 1 or > m
HasBadComponent(pairs, m) ==
    \E i \in 1..Len(pairs) : \E c \in 1..2 : ~(pairs[i][c] \in 1..m)

\* p is a number outside [0, 1]
OutsideUnit(p) == ~IsNaN(p) /\ (p[1] < 0 \/ p[1] > p[2])

\* C1: with an explicit pair sequence, pitos (and _validate_pairs on its own)
\* raises ValueError if and only if some component of some pair is < 1 or
\* > n, and when pitos raises it, no pair has been evaluated, the combiner
\* has not run and no value is returned; an evaluation only ever starts on a
\* sequence without such a component.
C1_InvalidPairsFailFast ==
    /\ (pc = "done" /\ fn = "pitos" /\ explicit) =>
          /\ (out.kind = "ValueError") <=> HasBadComponent(pairs_arg, Len(x))
          /\ (out.kind = "ValueError") =>
                /\ evalCalls = 0
                /\ combineCalls = 0
                /\ ev = NoEvaluation
                /\ p_values = <<>>
    /\ (fn = "pitos" /\ explicit /\ (pc \in {"sort", "evaluate"} \/ evalCalls > 0)) =>
          ~HasBadComponent(pairs_arg, Len(x))
    /\ (pc = "done" /\ fn = "_validate_pairs") =>
          ((out.kind = "ValueError") <=> HasBadComponent(pairs_sequence, n))

\* pitos raised on a sequence whose first pair is in range and whose second is not
C1_Witness ==
    /\ pc = "done" /\ fn = "pitos" /\ explicit
    /\ out.kind = "ValueError"
    /\ Len(pairs_arg) = 2
    /\ ~HasBadComponent(<<pairs_arg[1]>>, Len(x))
    /\ pairs_arg[2][2] = Len(x) + 1

\* C2: whenever pitos returns a value for a sample of length n >= 1, that
\* value is a real number p with 0 <= p <= 1.
C2_OverallPValueInUnitInterval ==
    (pc = "done" /\ fn = "pitos" /\ out.kind = "value" /\ Len(x) >= 1) =>
        /\ IsFinite(out.val)
        /\ Leq(Zero, out.val)
        /\ Leq(out.val, One)

\* C3: for a sorted xo and a valid pair with start # finish, a tie
\* xo[start] = xo[finish] gives u = 0 and the p-value 0 without any Beta CDF
\* call, forward and backward alike; for start = finish the p-value is
\* 2*min(u, 1-u) with u the Beta(finish, n-finish+1) CDF at xo[finish].
C3_TiesGiveZero ==
    (ev.branch # "none" /\ ~HasBadComponent(<<EvPair>>, Len(xo)) /\ n = Len(xo)) =>
        LET start == EvPair[1]
            finish == EvPair[2]
            u == BetaCdf(xo[finish], finish, n - finish + 1)
            twice == Mul(<<2, 1>>, u)
            twiceRest == Mul(<<2, 1>>, Sub(One, u))
        IN  /\ (start # finish /\ xo[start] = xo[finish]) =>
                  /\ ev.u = Zero
                  /\ ev.out = Returned(Zero)
                  /\ ev.cdf = <<>>
            /\ (start = finish) =>
                  /\ ev.u = u
                  /\ ev.cdf = <<<<finish, n - finish + 1>>>>
                  /\ ev.out = Returned(IF Less(twiceRest, twice) THEN twiceRest ELSE twice)

\* pitos evaluated a backward pair over a tie
C3_Witness ==
    /\ fn = "pitos" /\ ev.branch = "backward"
    /\ xo[EvPair[1]] = xo[EvPair[2]]
    /\ ev.out = Returned(Zero)

\* C4: _cauchy_combination raises ValueError for every array with an element
\* outside [0, 1], whatever the other elements are (NaN included): such an
\* array never gives a value.
C4_CombinerRejectsOutOfRange ==
    (combineCalls > 0 /\ \E i \in 1..Len(p_values) : OutsideUnit(p_values[i])) =>
        out.kind = "ValueError"

\* the combiner raised on an array of one element in range and one below 0
C4_Witness ==
    /\ pc = "done" /\ fn = "_cauchy_combination"
    /\ Len(p_values) = 2
    /\ p_values[1] = <<1, 2>>
    /\ p_values[2] = <<-1, 2>>
    /\ out.kind = "ValueError"

\* C5: for n >= 1 every component of every pair the generator returns is an
\* integer in 1..n (a weighted coordinate 0 becoming 1/n and then index 1), so
\* pitos in default mode never raises the invalid-pair-index error.
C5_GeneratedPairsInRange ==
    /\ (fn = "generate_weighted_halton_sequence" /\ pc = "done" /\ out.kind = "value") =>
          /\ ~HasBadComponent(pairs_sequence, n)
          /\ Ceil(Mul(ZeroFix(<<Zero>>, n)[1], <<n, 1>>)) = 1
    /\ (fn = "pitos" /\ ~explicit /\ pc # "generate") =>
          /\ ~HasBadComponent(pairs_sequence, n)
          /\ ~(out.kind = "ValueError" /\ out.line = 107)

\* pitos in default mode passed validation with 14 + 2 synthesized pairs
C5_Witness ==
    /\ fn = "pitos" /\ ~explicit /\ pc = "sort"
    /\ n = 2
    /\ Len(pairs_sequence) = 16

\* the base-b radical inverse of i: the digits of i, least significant first,
\* as the digits after the point
RECURSIVE RadicalInverse(_, _)
RadicalInverse(i, b) ==
    IF i = 0 THEN Zero
    ELSE Norm((i % b) * RadicalInverse(i \div b, b)[2] + RadicalInverse(i \div b, b)[1],
              b * RadicalInverse(i \div b, b)[2])

\* the index in 1..m a weighted coordinate w falls to: (k-1)/m < w <= k/m
IndexOf(w, m) == CHOOSE k \in 1..m : Less(<<k - 1, m>>, Mul(w, One)) /\ Leq(w, Norm(k, m))

\* C6: the generator returns exactly N + n pairs: first the weighted Halton
\* pairs for the indices 1..N in that order, then the marginal pairs (k, k)
\* for k = 1..n in ascending order.
C6_GeneratedSequenceShape ==
    ((fn = "generate_weighted_halton_sequence" /\ pc = "done" /\ out.kind = "value")
        \/ (fn = "pitos" /\ ~explicit /\ pc \in {"validate", "sort", "evaluate"})) =>
        /\ Len(pairs_sequence) = N[1] + n
        /\ \A i \in 1..N[1] :
              pairs_sequence[i] = <<IndexOf(BetaPpf07(RadicalInverse(i, 2)), n),
                                    IndexOf(BetaPpf07(RadicalInverse(i, 3)), n)>>
        /\ \A k \in 1..n : pairs_sequence[N[1] + k] = <<k, k>>

\* the generator returned 3 weighted pairs and 2 marginal pairs
C6_Witness ==
    /\ fn = "generate_weighted_halton_sequence" /\ pc = "done"
    /\ N = <<3, 1>> /\ n = 2
    /\ pairs_sequence = <<<<1, 1>>, <<1, 2>>, <<2, 1>>, <<1, 1>>, <<2, 2>>>>

\* what a finished _halton_1d(i, b) call with b >= 2 returned
HaltonResultRight ==
    (pc = "done" /\ fn = "_halton_1d" /\ hargs[2] >= 2) =>
        /\ out = Returned(RadicalInverse(hargs[1], hargs[2]))
        /\ Leq(Zero, out.val) /\ Less(out.val, One)
        /\ (hargs[1] = 0) => out.val = Zero
        /\ (hargs[1] >= 1) => Less(Zero, out.val)
        /\ (hargs = <<1, 2>>) => out.val = <<1, 2>>
        /\ (hargs = <<2, 2>>) => out.val = <<1, 4>>
        /\ (hargs = <<3, 2>>) => out.val = <<3, 4>>
        /\ (hargs = <<1, 3>>) => out.val = <<1, 3>>
        /\ (hargs = <<2, 3>>) => out.val = <<2, 3>>

\* C7: for b >= 2 and i >= 0, _halton_1d(i, b) terminates and returns the
\* base-b radical inverse of i, which is in [0, 1), 0 for i = 0 and > 0 for
\* i >= 1; halton1d(1,2) = 1/2, (2,2) = 1/4, (3,2) = 3/4, (1,3) = 1/3,
\* (2,3) = 2/3.
C7_HaltonRadicalInverse ==
    /\ []HaltonResultRight
    /\ ((pc = "halton" /\ hargs[2] >= 2) ~> (pc = "done"))

\* _halton_1d(11, 3) returned 19/27 after three passes of its loop
C7_Witness ==
    /\ pc = "done" /\ fn = "_halton_1d"
    /\ hargs = <<11, 3>>
    /\ out.val = <<19, 27>>

\* C8: pair generation requested for n <= 0 fails with the generator's
\* invalid-size error, raised by its n <= 0 check, and no pair is produced and
\* no value returned.
C8_InvalidSizeFromGenerator ==
    (pc = "done" /\ n <= 0
        /\ ((fn = "pitos" /\ ~explicit) \/ fn = "generate_weighted_halton_sequence")) =>
        /\ out.kind = "ValueError"
        /\ out.line = 51
        /\ pairs_sequence = <<>>

\* C9: two pitos calls with the same sample and the same pair sequence (or
\* both without one) end alike, with exactly the same p-value when they
\* return one, however many pitos calls with other arguments ran in between;
\* nothing of a call is left between calls.
C9_PitosDeterministic ==
    /\ (pc = "done" /\ SameCall) =>
          /\ (out.kind = "value") <=> (memo.out.kind = "value")
          /\ (out.kind = "value") => out.val = memo.out.val
    /\ (pc = "idle") => Fresh

\* a default-mode call returned the value an earlier one did, after a call
\* with other arguments in between
C9_Witness ==
    /\ pc = "done" /\ SameCall
    /\ ~explicit /\ n = 2
    /\ out.kind = "value" /\ out.val = memo.out.val
    /\ memo.others >= 1

\* C10: for n >= 1 and a pair that passes validation, the evaluator takes the
\* one branch its pair calls for, reads xo only at the offsets start-1 and
\* finish-1, both in 0..n-1, raises nothing, and gives the Beta CDF integer
\* shapes >= 1: (finish, n-finish+1) on the diagonal, (finish-start,
\* n-finish+1) forward, (finish, start-finish) backward.
C10_EvaluatorInBounds ==
    (ev.branch # "none" /\ ~HasBadComponent(<<EvPair>>, Len(xo)) /\ n = Len(xo)) =>
        LET start == EvPair[1]
            finish == EvPair[2]
            shapes == IF start = finish THEN <<finish, n - finish + 1>>
                      ELSE IF start < finish THEN <<finish - start, n - finish + 1>>
                      ELSE <<finish, start - finish>>
        IN  /\ ev.branch = (IF start = finish THEN "diagonal"
                            ELSE IF start < finish THEN "forward" ELSE "backward")
            /\ ev.reads = {start - 1, finish - 1}
            /\ ev.reads \subseteq 0..(n - 1)
            /\ ev.out.kind = "value"
            /\ ev.cdf \in {<<>>, <<shapes>>}
            /\ (ev.cdf = <<>>) => (start # finish /\ xo[start] = xo[finish])
            /\ \A j \in 1..Len(ev.cdf) : ev.cdf[j][1] >= 1 /\ ev.cdf[j][2] >= 1

\* pitos evaluated a backward pair over distinct values through the Beta CDF
C10_Witness ==
    /\ fn = "pitos" /\ ev.branch = "backward"
    /\ EvPair = <<2, 1>>
    /\ ev.reads = {0, 1}
    /\ ev.cdf = <<<<1, 1>>>>
    /\ ev.out.kind = "value"

====
